---- MODULE Spec2Model ----
(***************************************************************************)
(* btc-rpc-proxy, src/client.rs: the credential source (AuthSource) with   *)
(* its mtime-keyed cookie cache, and RpcClient::send, the interception     *)
(* aware dispatch of single and batched JSON-RPC requests.                 *)
(*                                                                         *)
(* The cookie file is the environment: every write gives the file a fresh  *)
(* modification timestamp (the timestamp of a version is its position in   *)
(* fileHist), and a write replaces content and timestamp in one step.      *)
(***************************************************************************)
EXTENDS Integers, Sequences, FiniteSets, TLC

\* ---------------------------------------------------------------- bounds
MaxVersions == 2
MaxBatch == 2

\* ------------------------------------------------------------- constants
MISC_ERROR_CODE == -1
PARSE_ERROR_CODE == -32700
METHOD_NOT_ALLOWED_ERROR_CODE == -32604
Pad == 64

NoSnapshot == [some |-> FALSE]
NoHeader == [scheme |-> "none", cred |-> <<>>]
Pending == [ok |-> FALSE, kind |-> "pending"]
NoLast == [some |-> FALSE]

\* Cookie file contents as byte sequences: "a", "a\n", "b".
Contents == { <<97>>, <<97, 10>>, <<98>> }

\* Task 0 is the task running RpcClient::send; two more tasks call try_load
\* directly and concurrently (as RpcClient::call does).
SendTask == 0
Callers == {1, 2}
OtherTask == 3
Tasks == {SendTask} \cup Callers \cup {OtherTask}

VARIABLES
  config,      \* Config: bitcoind_user, bitcoind_password, cookie_file
  startup,     \* result of AuthSource::from_config in create_state
  auth,        \* AuthSource variant held by the RpcClient, once created
  cached,      \* CookieFile.cached: NoSnapshot or [ts, header]
  rwReaders,   \* tasks holding a read guard of the RwLock
  rwWriter,    \* set of tasks holding the write guard (at most one)
  fileExists,  \* the cookie file is present
  fileHist,    \* contents of the file by version; Len = current mtime
  pc,          \* position of each task inside try_load
  cache,       \* try_load local: the snapshot cloned at line 394
  modified,    \* try_load local: the timestamp read at line 395
  header,      \* try_load local: the header built at line 400
  ret,         \* result of the call: Pending, Ok(header) or Err(kind)
  startVer,    \* history: file version when the call started
  didRead,     \* history: number of content reads made by the call
  last,        \* history: the previous successful call of a direct caller
  clean        \* history: no other task installed a snapshot meanwhile

authVars == <<config, startup, auth, cached, rwReaders, rwWriter, fileExists, fileHist, pc,
              cache, modified, header, ret, startVer, didRead, last, clean>>

fileMtime == Len(fileHist)
fileContent == fileHist[Len(fileHist)]

\* --------------------------------------------------------- pure functions
RECURSIVE Base64(_)
Base64(b) ==
  IF Len(b) = 0 THEN <<>>
  ELSE IF Len(b) = 1
    THEN LET n == b[1] * 65536
         IN  << n \div 262144, (n \div 4096) % 64, Pad, Pad >>
  ELSE IF Len(b) = 2
    THEN LET n == b[1] * 65536 + b[2] * 256
         IN  << n \div 262144, (n \div 4096) % 64, (n \div 64) % 64, Pad >>
  ELSE LET n == b[1] * 65536 + b[2] * 256 + b[3]
       IN  << n \div 262144, (n \div 4096) % 64, (n \div 64) % 64, n % 64 >>
           \o Base64(SubSeq(b, 4, Len(b)))

\* load_from_file's closure: drop one trailing '\n', then base64.
LoadFromFile(cookie) ==
  LET stripped == IF Len(cookie) > 0 /\ cookie[Len(cookie)] = 10
                  THEN SubSeq(cookie, 1, Len(cookie) - 1)
                  ELSE cookie
  IN  Base64(stripped)

\* format!("Basic {}", ..).parse()
BasicHeader(b64) == [scheme |-> "Basic", cred |-> b64]

\* user "u", password "p": base64("u:p")
ConstHeader == BasicHeader(Base64(<<117, 58, 112>>))

Ok(h) == [ok |-> TRUE, header |-> h]
Err(k) == [ok |-> FALSE, kind |-> k]

\* the snapshot is stamped later than the timestamp that was observed
NewCacheLaterTimestamp(m, h) == [some |-> TRUE, ts |-> m + 1, header |-> h]

NewCache(m, h) == [some |-> TRUE, ts |-> m, header |-> h]

\* any snapshot is taken for valid
CacheHitAnyTimestamp(c, m) == c.some

\* the comparison is inverted
CacheHitInverted(c, m) == c.some /\ m # c.ts

\* a snapshot is taken for valid unless it is newer than the file
CacheHitNotNewer(c, m) == c.some /\ c.ts <= m

CacheHit(c, m) == c.some /\ m = c.ts

\* ---------------------------------------------------------- from_config
None == [some |-> FALSE]
Some(v) == [some |-> TRUE, v |-> v]

\* The eight present/absent combinations of the three settings; the user
\* is "u", the password "p", the path of the cookie file "c".
Configs ==
  [bitcoind_user : {None, Some(<<117>>)},
   bitcoind_password : {None, Some(<<112>>)},
   cookie_file : {None, Some(<<99>>)}]

NotStarted == [done |-> FALSE, ok |-> FALSE, variant |-> "none",
               header |-> NoHeader, msg |-> ""]
ConfigOk(variant, h) == [done |-> TRUE, ok |-> TRUE, variant |-> variant,
                         header |-> h, msg |-> ""]
ConfigErr(msg) == [done |-> TRUE, ok |-> FALSE, variant |-> "none",
                   header |-> NoHeader, msg |-> msg]

\* a password alone is taken for a credential, the user being optional
FromConfigUserOptional(user, password, file) ==
  IF password.some /\ ~file.some
  THEN ConfigOk("Const", BasicHeader(Base64(
         (IF user.some THEN user.v ELSE <<>>) \o <<58>> \o password.v)))
  ELSE IF ~user.some /\ ~password.some /\ file.some
  THEN ConfigOk("CookieFile", NoHeader)
  ELSE IF ~user.some /\ ~password.some /\ ~file.some
  THEN ConfigErr("missing authentication information")
  ELSE ConfigErr("either a password and possibly a username or a cookie file must be specified")

\* match (user, password, file)
FromConfig(user, password, file) ==
  IF user.some /\ password.some /\ ~file.some
  THEN ConfigOk("Const",
                BasicHeader(Base64(user.v \o <<58>> \o password.v)))
  ELSE IF ~user.some /\ ~password.some /\ file.some
  THEN ConfigOk("CookieFile", NoHeader)
  ELSE IF ~user.some /\ ~password.some /\ ~file.some
  THEN ConfigErr("missing authentication information")
  ELSE ConfigErr("either a password and possibly a username or a cookie file must be specified")

\* create_state: AuthSource::from_config(...)? then RpcClient::new(auth, uri);
\* on Err no client exists and nothing else ever runs.
CreateState ==
  /\ ~startup.done
  /\ startup' = FromConfig(config.bitcoind_user, config.bitcoind_password,
                           config.cookie_file)
  /\ auth' = IF startup'.ok THEN startup'.variant ELSE "Failed"
  /\ UNCHANGED <<config, cached, rwReaders, rwWriter, fileExists, fileHist,
                 pc, cache, modified, header, ret, startVer, didRead, last,
                 clean>>

\* ------------------------------------------------------------- try_load
TLConst(p) ==
  /\ auth = "Const"
  /\ pc[p] = "idle"
  /\ pc' = [pc EXCEPT ![p] = "done"]
  /\ ret' = [ret EXCEPT ![p] = Ok(startup.header)]
  /\ startVer' = [startVer EXCEPT ![p] = fileMtime]
  /\ UNCHANGED <<config, startup, auth, cached, rwReaders, rwWriter, fileExists, fileHist,
                 cache, modified, header, didRead, last, clean>>

\* cached.read().await : the read guard is granted
TLReadLock(p) ==
  /\ auth = "CookieFile"
  /\ pc[p] = "idle"
  /\ rwWriter = {}
  /\ rwReaders' = rwReaders \cup {p}
  /\ pc' = [pc EXCEPT ![p] = "rlock"]
  /\ startVer' = [startVer EXCEPT ![p] = fileMtime]
  /\ UNCHANGED <<config, startup, auth, cached, rwWriter, fileExists, fileHist, cache,
                 modified, header, ret, didRead, last, clean>>

\* the read guard is kept in a local and lives on through the file I/O
TLCloneCacheKeepsGuard(p) ==
  /\ pc[p] = "rlock"
  /\ cache' = [cache EXCEPT ![p] = cached]
  /\ pc' = [pc EXCEPT ![p] = "stat"]
  /\ UNCHANGED <<config, startup, auth, cached, rwReaders, rwWriter,
                 fileExists, fileHist, modified, header, ret, startVer,
                 didRead, last, clean>>

\* .clone() of the guarded Option<Arc<..>>; the guard is dropped
TLCloneCache(p) ==
  /\ pc[p] = "rlock"
  /\ cache' = [cache EXCEPT ![p] = cached]
  /\ rwReaders' = rwReaders \ {p}
  /\ pc' = [pc EXCEPT ![p] = "stat"]
  /\ UNCHANGED <<config, startup, auth, cached, rwWriter, fileExists, fileHist, modified,
                 header, ret, startVer, didRead, last, clean>>

\* when the file cannot be examined the header of the snapshot is returned
TLStatFallsBack(p) ==
  /\ pc[p] = "stat"
  /\ IF ~fileExists
       THEN /\ ret' = [ret EXCEPT ![p] =
                        IF cache[p].some THEN Ok(cache[p].header)
                        ELSE Err("io")]
            /\ pc' = [pc EXCEPT ![p] = "done"]
            /\ UNCHANGED modified
       ELSE /\ modified' = [modified EXCEPT ![p] = fileMtime]
            /\ IF CacheHit(cache[p], fileMtime)
                 THEN /\ ret' = [ret EXCEPT ![p] = Ok(cache[p].header)]
                      /\ pc' = [pc EXCEPT ![p] = "done"]
                 ELSE /\ pc' = [pc EXCEPT ![p] = "read"]
                      /\ UNCHANGED ret
  /\ UNCHANGED <<config, startup, auth, cached, rwReaders, rwWriter,
                 fileExists, fileHist, cache, header, startVer, didRead,
                 last, clean>>

\* tokio::fs::metadata(&path).await?.modified()? and the match on the cache
TLStat(p) ==
  /\ pc[p] = "stat"
  /\ IF ~fileExists
       THEN /\ ret' = [ret EXCEPT ![p] = Err("io")]
            /\ pc' = [pc EXCEPT ![p] = "done"]
            /\ UNCHANGED modified
       ELSE /\ modified' = [modified EXCEPT ![p] = fileMtime]
            /\ IF CacheHit(cache[p], fileMtime)
                 THEN /\ ret' = [ret EXCEPT ![p] = Ok(cache[p].header)]
                      /\ pc' = [pc EXCEPT ![p] = "done"]
                 ELSE /\ pc' = [pc EXCEPT ![p] = "read"]
                      /\ UNCHANGED ret
  /\ UNCHANGED <<config, startup, auth, cached, rwReaders, rwWriter, fileExists, fileHist,
                 cache, header, startVer, didRead, last, clean>>

\* format!("Basic {}", AuthSource::load_from_file(path).await?).parse()?
TLLoadFromFile(p) ==
  /\ pc[p] = "read"
  /\ IF ~fileExists
       THEN /\ ret' = [ret EXCEPT ![p] = Err("io")]
            /\ pc' = [pc EXCEPT ![p] = "done"]
            /\ UNCHANGED <<header, didRead>>
       ELSE /\ header' = [header EXCEPT ![p] =
                             BasicHeader(LoadFromFile(fileContent))]
            /\ didRead' = [didRead EXCEPT ![p] = @ + 1]
            /\ pc' = [pc EXCEPT ![p] = "wwait"]
            /\ UNCHANGED ret
  /\ UNCHANGED <<config, startup, auth, cached, rwReaders, rwWriter, fileExists, fileHist,
                 cache, modified, startVer, last, clean>>

\* cached.write().await : the write guard is granted
TLWriteLock(p) ==
  /\ pc[p] = "wwait"
  /\ rwWriter = {}
  /\ rwReaders = {}
  /\ rwWriter' = {p}
  /\ pc' = [pc EXCEPT ![p] = "wlock"]
  /\ UNCHANGED <<config, startup, auth, cached, rwReaders, fileExists, fileHist, cache,
                 modified, header, ret, startVer, didRead, last, clean>>

\* *guard = Some(Arc::new(new_cache)); the guard is dropped; Ok(header)
TLInstall(p) ==
  /\ pc[p] = "wlock"
  /\ cached' = NewCache(modified[p], header[p])
  /\ rwWriter' = {}
  /\ ret' = [ret EXCEPT ![p] = Ok(header[p])]
  /\ pc' = [pc EXCEPT ![p] = "done"]
  /\ clean' = [q \in Tasks |-> IF q = p \/ q \notin Callers THEN clean[q] ELSE FALSE]
  /\ UNCHANGED <<config, startup, auth, rwReaders, fileExists, fileHist, cache, modified,
                 header, startVer, didRead, last>>

\* The call's future completes: the locals are dropped.
TLFinish(p) ==
  /\ pc[p] = "done"
  /\ pc' = [pc EXCEPT ![p] = "idle"]
  /\ last' = [last EXCEPT ![p] =
                IF p \in Callers /\ auth = "CookieFile" /\ ret[p].ok
                  THEN [some |-> TRUE, header |-> ret[p].header,
                        modified |-> modified[p], clean |-> clean[p]]
                  ELSE NoLast]
  /\ clean' = [clean EXCEPT ![p] = TRUE]
  /\ cache' = [cache EXCEPT ![p] = NoSnapshot]
  /\ modified' = [modified EXCEPT ![p] = 0]
  /\ header' = [header EXCEPT ![p] = NoHeader]
  /\ ret' = [ret EXCEPT ![p] = Pending]
  /\ didRead' = [didRead EXCEPT ![p] = 0]
  /\ startVer' = [startVer EXCEPT ![p] = 0]
  /\ UNCHANGED <<config, startup, auth, cached, rwReaders, rwWriter, fileExists, fileHist>>

\* ------------------------------------------------------ the cookie file
FileWrite(c) ==
  /\ auth = "CookieFile"
  /\ Len(fileHist) < MaxVersions
  /\ fileHist' = Append(fileHist, c)
  /\ fileExists' = TRUE
  /\ UNCHANGED <<config, startup, auth, cached, rwReaders, rwWriter, pc, cache, modified,
                 header, ret, startVer, didRead, last, clean>>

FileRemove ==
  /\ auth = "CookieFile"
  /\ fileExists
  /\ fileExists' = FALSE
  /\ UNCHANGED <<config, startup, auth, cached, rwReaders, rwWriter, fileHist, pc, cache,
                 modified, header, ret, startVer, didRead, last, clean>>

FileStep == FileRemove \/ \E c \in Contents : FileWrite(c)

TryLoadStep(p) ==
  \/ TLConst(p)
  \/ TLReadLock(p)
  \/ TLCloneCache(p)
  \/ TLStat(p)
  \/ TLLoadFromFile(p)
  \/ TLWriteLock(p)
  \/ TLInstall(p)

\* ------------------------------------------------- JSON-RPC envelope
NoStatus == 0
NoId == [some |-> FALSE]
SomeId(v) == [some |-> TRUE, v |-> v]
NoError == [some |-> FALSE]
SomeError(e) == [some |-> TRUE, e |-> e]
NoResult == [some |-> FALSE]
SomeResult(v) == [some |-> TRUE, v |-> v]
JNull == [null |-> TRUE]
JValue(v) == [null |-> FALSE, v |-> v]

\* RpcRequest<GenericRpcMethod> values a client sends
Requests ==
  { [id |-> SomeId("1"), method |-> "a", params |-> <<>>],
    [id |-> NoId, method |-> "b", params |-> <<>>] }

Paths == { "/", "/wallet/a" }

\* Single JSON objects a client sends: with an id, without the id key,
\* with "id": null, with a key RpcRequest does not know, without params.
WireRequests ==
  { [id |-> JValue("1"), method |-> "a", params |-> <<>>],
    [method |-> "b", params |-> <<>>],
    [id |-> JNull, method |-> "b", params |-> <<>>],
    [jsonrpc |-> "2.0", method |-> "b", params |-> <<>>],
    [id |-> JValue("1"), method |-> "a"] }

NoRequest == [id |-> NoId, method |-> "", params |-> <<>>]

\* visit_map of SingleOrBatchRpcRequest: the id is read as Option<Value>,
\* for which null is None; unknown keys are read and dropped; method and
\* params are required
DeserializeRequest(w) ==
  IF "method" \notin DOMAIN w \/ "params" \notin DOMAIN w
    THEN [ok |-> FALSE, req |-> NoRequest]
    ELSE [ok |-> TRUE,
          req |-> [id |-> IF "id" \in DOMAIN w /\ ~w.id.null
                            THEN SomeId(w.id.v) ELSE NoId,
                   method |-> w.method,
                   params |-> w.params]]

\* derive(Serialize) of RpcRequest: the id key is skipped when id is None
SerializeRequest(r) ==
  IF r.id.some
    THEN [id |-> JValue(r.id.v), method |-> r.method, params |-> r.params]
    ELSE [method |-> r.method, params |-> r.params]

\* derive(Serialize) of RpcResponse and RpcError: status is skipped, absent
\* options are written as null
SerializeResponse(r) ==
  [id |-> IF r.id.some THEN JValue(r.id.v) ELSE JNull,
   error |-> IF r.error.some
               THEN [null |-> FALSE, code |-> r.error.e.code,
                     message |-> r.error.e.message]
               ELSE JNull,
   result |-> IF r.result.some THEN JValue(r.result.v) ELSE JNull]

\* derive(Deserialize) of RpcResponse: null decodes to None, status defaults
DeserializeResponse(w) ==
  [id |-> IF w.id.null THEN NoId ELSE SomeId(w.id.v),
   error |-> IF w.error.null
               THEN NoError
               ELSE SomeError([code |-> w.error.code,
                               message |-> w.error.message,
                               status |-> NoStatus]),
   result |-> IF w.result.null THEN NoResult ELSE SomeResult(w.result.v)]

\* impl From<Error> for RpcError
RpcErrorFromError(msg) ==
  [code |-> MISC_ERROR_CODE, message |-> msg, status |-> NoStatus]

\* impl From<serde_json::Error> for RpcError
RpcErrorFromSerde(msg) ==
  [code |-> PARSE_ERROR_CODE, message |-> msg, status |-> NoStatus]

\* impl From<RpcError> for RpcResponse
RpcResponseFrom(e) == [id |-> NoId, error |-> SomeError(e), result |-> NoResult]

Http(status, shape, body) ==
  [kind |-> "http", status |-> status, shape |-> shape, body |-> body]
NoHttp(kind) == [kind |-> kind, status |-> 0, shape |-> "none", body |-> <<>>]

\* the status annotation of the error is ignored
IntoResponseIgnoresStatus(r) ==
  Http(IF r.error.some THEN 500 ELSE 200, "object", SerializeResponse(r))

\* RpcResponse::into_response
IntoResponse(r) ==
  Http(IF r.error.some /\ r.error.e.status # NoStatus THEN r.error.e.status
       ELSE IF r.error.some THEN 500
       ELSE 200,
       "object", SerializeResponse(r))

\* ---------------------------------------------- the interception function
\* Errors an interception function returns.
RpcErrors ==
  { [code |-> METHOD_NOT_ALLOWED_ERROR_CODE, message |-> "Method not allowed",
     status |-> 403],
    [code |-> MISC_ERROR_CODE, message |-> "misc", status |-> NoStatus] }

\* Responses an interception function returns for request r; nothing in
\* send constrains the id it puts into them.
LocalResponses(r) ==
  { [id |-> i, error |-> NoError, result |-> SomeResult(<<"local", r.method>>)] :
      i \in {r.id, SomeId("9")} }

NoResponse == [id |-> NoId, error |-> NoError, result |-> NoResult]
NoRpcError == [code |-> 0, message |-> "", status |-> NoStatus]

\* Result<Option<RpcResponse>, RpcError>
InterceptOutcomes(r) ==
  {[kind |-> "none", res |-> NoResponse, e |-> NoRpcError]}
    \cup {[kind |-> "ok", res |-> x, e |-> NoRpcError] : x \in LocalResponses(r)}
    \cup {[kind |-> "err", res |-> NoResponse, e |-> x] : x \in RpcErrors}

PendingOutcome == [kind |-> "pending", res |-> NoResponse, e |-> NoRpcError]

\* an Err of the interception function is taken for "no opinion"
HasOpinionOkOnly(o) == o.kind = "ok"

\* whatever the function returned, the element is forwarded
HasOpinionNever(o) == FALSE

\* .transpose() is Some(..): the function expressed an opinion
HasOpinion(o) == o.kind # "none"

\* the error response is built without the request's id
UnwrapOrElseNoId(o, r) ==
  IF o.kind = "ok"
    THEN o.res
    ELSE [id |-> NoId, error |-> SomeError(o.e), result |-> NoResult]

\* res.unwrap_or_else(|e| RpcResponse { id: req.id.clone(), .. })
UnwrapOrElse(o, r) ==
  IF o.kind = "ok"
    THEN o.res
    ELSE [id |-> r.id, error |-> SomeError(o.e), result |-> NoResult]

\* ------------------------------------------------------------ the upstream
UpstreamAnswer(w) ==
  [id |-> IF "id" \in DOMAIN w THEN SomeId(w.id.v) ELSE NoId,
   error |-> NoError,
   result |-> SomeResult(<<"up", w.method>>)]

\* HTTP status codes the upstream answers a single request with
UpstreamStatuses == {200, 404}

Post(p, h, b) == [method |-> "POST", path |-> p, header |-> h, body |-> b]

\* the response is rebuilt with the default status
PassThroughDefaultStatus(reply) == Http(200, "raw", reply.body)

\* the upstream's raw HTTP response is handed back as it is
PassThrough(reply) == Http(reply.status, "raw", reply.body)

NoReply == [mode |-> "none", status |-> 0, body |-> <<>>]

VARIABLES
  spc,           \* position of the send call
  reqKind,       \* "single" or "batch"
  reqs,          \* the request(s); a single request is reqs[1]
  path,          \* the path argument
  outcomes,      \* history: what the interception function returned, by position
  interceptedCh, \* the intercepted channel, in send order
  forwardedCh,   \* the forwarded channel, in send order
  idxs,          \* send_batch local
  newBatch,      \* send_batch local
  intercepted,   \* the collected intercepted channel
  upstreamLog,   \* history: the POSTs this call made
  upReply,       \* history: what the upstream answered
  result,        \* what send returned
  cachedAtStart, \* history: CookieFile.cached when the call started
  wire           \* history: the JSON object a single request was decoded from

sendVars == <<spc, reqKind, reqs, path, outcomes, interceptedCh, forwardedCh,
              idxs, newBatch, intercepted, upstreamLog, upReply, result,
              cachedAtStart, wire>>

VARIABLES
  cpc,           \* position of the call: "idle", "c_auth", "c_wait", "done"
  callReq,       \* the request call was given
  callLog,       \* history: the POSTs this call made
  callReply,     \* history: what the upstream answered
  callRet        \* what call returned

callVars == <<cpc, callReq, callLog, callReply, callRet>>

vars == <<authVars, sendVars, callVars>>

\* itertools merge_by(.., |(a, _), (b, _)| a < b)
RECURSIVE MergeBy(_, _)
MergeBy(a, b) ==
  IF a = <<>> THEN b
  ELSE IF b = <<>> THEN a
  ELSE IF a[1][1] < b[1][1]
    THEN <<a[1]>> \o MergeBy(Tail(a), b)
    ELSE <<b[1]>> \o MergeBy(a, Tail(b))

\* Iterator::zip stops at the shorter side
Zip(a, b) ==
  [k \in 1..(IF Len(a) < Len(b) THEN Len(a) ELSE Len(b)) |-> <<a[k], b[k]>>]

Min(S) == CHOOSE x \in S : \A y \in S : x <= y

\* a send call starts
SendBegin(kind, rs, p) ==
  /\ auth \in {"Const", "CookieFile"}
  /\ spc = "idle"
  /\ reqKind' = kind
  /\ reqs' = rs
  /\ path' = p
  /\ outcomes' = [k \in 1..Len(rs) |-> PendingOutcome]
  /\ cachedAtStart' = cached
  /\ spc' = IF kind = "single" THEN "s_intercept" ELSE "b_fanout"
  /\ UNCHANGED <<interceptedCh, forwardedCh, idxs, newBatch, intercepted,
                 upstreamLog, upReply, result>>
  /\ UNCHANGED <<authVars, callVars>>

\* a batch arrives: its elements are the requests as decoded
BatchBegin(rs, p) ==
  /\ SendBegin("batch", rs, p)
  /\ UNCHANGED wire

\* a single JSON object arrives, is decoded, and send is called with it;
\* an object that does not decode never reaches send
Receive(w, p) ==
  /\ DeserializeRequest(w).ok
  /\ SendBegin("single", <<DeserializeRequest(w).req>>, p)
  /\ wire' = w

\* Single: intercept(path, req).await.transpose()
SingleIntercept ==
  /\ spc = "s_intercept"
  /\ \E o \in InterceptOutcomes(reqs[1]) :
       /\ outcomes' = [outcomes EXCEPT ![1] = o]
       /\ IF HasOpinion(o)
            THEN /\ result' = IntoResponse(UnwrapOrElse(o, reqs[1]))
                 /\ spc' = "done"
            ELSE /\ spc' = "s_auth"
                 /\ UNCHANGED result
  /\ UNCHANGED <<reqKind, reqs, path, interceptedCh, forwardedCh, idxs,
                 newBatch, intercepted, upstreamLog, upReply, cachedAtStart>>
  /\ UNCHANGED <<authVars, callVars, wire>>

\* Single: try_load has returned; the request is built and sent
SinglePost ==
  /\ spc = "s_auth"
  /\ pc[SendTask] = "done"
  /\ IF ret[SendTask].ok
       THEN /\ upstreamLog' = Append(upstreamLog,
                 Post(path, ret[SendTask].header, SerializeRequest(reqs[1])))
            /\ spc' = "s_wait"
            /\ UNCHANGED result
       ELSE /\ result' = NoHttp("failure")
            /\ spc' = "done"
            /\ UNCHANGED upstreamLog
  /\ UNCHANGED <<reqKind, reqs, path, outcomes, interceptedCh, forwardedCh,
                 idxs, newBatch, intercepted, upReply, cachedAtStart>>
  /\ UNCHANGED <<authVars, callVars, wire>>

\* Single: the upstream answers, or the transport fails
SingleReply(mode, status) ==
  /\ spc = "s_wait"
  /\ LET reply == IF mode = "fail" THEN [mode |-> mode, status |-> 0, body |-> <<>>]
                  ELSE [mode |-> mode, status |-> status,
                        body |-> SerializeResponse(
                                   UpstreamAnswer(upstreamLog[1].body))]
     IN  /\ upReply' = reply
         /\ result' = IF mode = "fail" THEN NoHttp("failure")
                      ELSE PassThrough(reply)
  /\ spc' = "done"
  /\ UNCHANGED <<reqKind, reqs, path, outcomes, interceptedCh, forwardedCh,
                 idxs, newBatch, intercepted, upstreamLog, cachedAtStart>>
  /\ UNCHANGED <<authVars, callVars, wire>>

\* what the task at idx sends into the intercepted channel:
\* res.map(|res| (idx, res))
InterceptedItem(idx, o) ==
  [ok |-> o.kind = "ok", idx |-> idx, res |-> o.res, e |-> o.e]

\* Batch: one of the concurrent interception invocations completes and
\* sends its outcome, tagged with its zero-based index, into a channel
InterceptComplete ==
  /\ spc = "b_fanout"
  /\ \E i \in {k \in 1..Len(reqs) : outcomes[k].kind = "pending"} :
       \E o \in InterceptOutcomes(reqs[i]) :
         /\ outcomes' = [outcomes EXCEPT ![i] = o]
         /\ IF HasOpinion(o)
              THEN /\ interceptedCh' =
                        Append(interceptedCh, InterceptedItem(i - 1, o))
                   /\ UNCHANGED forwardedCh
              ELSE /\ forwardedCh' = Append(forwardedCh, <<i - 1, reqs[i]>>)
                   /\ UNCHANGED interceptedCh
  /\ UNCHANGED <<spc, reqKind, reqs, path, idxs, newBatch, intercepted,
                 upstreamLog, upReply, result, cachedAtStart>>
  /\ UNCHANGED <<authVars, callVars, wire>>

\* for_each_concurrent(..).await returns: every invocation has completed
FanOutComplete == \A k \in 1..Len(reqs) : outcomes[k].kind # "pending"

\* send keeps the two original senders alive next to the receivers
SendersAfterFanOutKeepsOriginals ==
  {k \in 1..Len(reqs) : outcomes[k].kind = "pending"} \cup {0}

\* Sender handles alive after the statement of lines 244-257: the two
\* originals were moved into the closure and dropped with the fan-out
\* future; the clones of task k live until task k has sent.
SendersAfterFanOut == {k \in 1..Len(reqs) : outcomes[k].kind = "pending"}

\* intercepted_recv.try_collect::<Vec<_>>() stops at the first Err
TryCollectFails(ch) == \E k \in 1..Len(ch) : ~ch[k].ok
TryCollectError(ch) == ch[Min({k \in 1..Len(ch) : ~ch[k].ok})].e
TryCollectOk(ch) == [k \in 1..Len(ch) |-> <<ch[k].idx, ch[k].res>>]

\* Batch: the fan-out is over and try_join! is polled for the first time.
\* send_batch drains the forwarded channel and runs up to its first
\* suspension; try_collect completes at once.  If it yields an Err,
\* try_join! returns it and drops send_batch: with a cookie file that is
\* before the request exists, with a Const source the request future has
\* been polled once and the POST may or may not leave.
BatchJoin(sent) ==
  /\ spc = "b_fanout"
  /\ FanOutComplete
  /\ SendersAfterFanOut = {}
  /\ idxs' = [k \in 1..Len(forwardedCh) |-> forwardedCh[k][1]]
  /\ newBatch' = [k \in 1..Len(forwardedCh) |-> forwardedCh[k][2]]
  /\ IF TryCollectFails(interceptedCh)
       THEN /\ result' = IntoResponse(RpcResponseFrom(TryCollectError(interceptedCh)))
            /\ spc' = "done"
            /\ upstreamLog' =
                 IF sent /\ auth = "Const"
                   THEN Append(upstreamLog,
                          Post(path, startup.header,
                               [k \in 1..Len(forwardedCh) |->
                                  SerializeRequest(forwardedCh[k][2])]))
                   ELSE upstreamLog
            /\ UNCHANGED intercepted
       ELSE /\ intercepted' = TryCollectOk(interceptedCh)
            /\ spc' = "b_auth"
            /\ sent = FALSE
            /\ UNCHANGED <<result, upstreamLog>>
  /\ UNCHANGED <<reqKind, reqs, path, outcomes, interceptedCh, forwardedCh,
                 upReply, cachedAtStart>>
  /\ UNCHANGED <<authVars, callVars, wire>>

\* an empty forwarded sub-batch is not posted: the local responses are
\* emitted at once
BatchPostSkipsEmpty ==
  /\ spc = "b_auth"
  /\ pc[SendTask] = "done"
  /\ IF newBatch = <<>>
       THEN /\ result' = Http(200, "array",
                   [k \in 1..Len(intercepted) |->
                      SerializeResponse(intercepted[k][2])])
            /\ spc' = "done"
            /\ UNCHANGED upstreamLog
       ELSE IF ret[SendTask].ok
       THEN /\ upstreamLog' = Append(upstreamLog,
                 Post(path, ret[SendTask].header,
                      [k \in 1..Len(newBatch) |-> SerializeRequest(newBatch[k])]))
            /\ spc' = "b_wait"
            /\ UNCHANGED result
       ELSE /\ result' = IntoResponse(RpcResponseFrom(RpcErrorFromError("io")))
            /\ spc' = "done"
            /\ UNCHANGED upstreamLog
  /\ UNCHANGED <<reqKind, reqs, path, outcomes, interceptedCh, forwardedCh,
                 idxs, newBatch, intercepted, upReply, cachedAtStart>>
  /\ UNCHANGED <<authVars, callVars, wire>>

\* Batch: try_load has returned inside send_batch; the batch is posted
BatchPost ==
  /\ spc = "b_auth"
  /\ pc[SendTask] = "done"
  /\ IF ret[SendTask].ok
       THEN /\ upstreamLog' = Append(upstreamLog,
                 Post(path, ret[SendTask].header,
                      [k \in 1..Len(newBatch) |-> SerializeRequest(newBatch[k])]))
            /\ spc' = "b_wait"
            /\ UNCHANGED result
       ELSE /\ result' = IntoResponse(RpcResponseFrom(RpcErrorFromError("io")))
            /\ spc' = "done"
            /\ UNCHANGED upstreamLog
  /\ UNCHANGED <<reqKind, reqs, path, outcomes, interceptedCh, forwardedCh,
                 idxs, newBatch, intercepted, upReply, cachedAtStart>>
  /\ UNCHANGED <<authVars, callVars, wire>>

\* what the upstream puts into the body of its answer to a batch
UpstreamBatchBody(mode, batch) ==
  LET n == IF mode = "short" THEN Len(batch) - 1 ELSE Len(batch)
  IN  [k \in 1..n |-> SerializeResponse(UpstreamAnswer(batch[k]))]

UpstreamModes == {"answer", "short", "garbage", "fail"}

\* a failed upstream call yields the locally intercepted responses
BatchResultPartial(mode, body) ==
  IF mode \in {"fail", "garbage"}
    THEN Http(200, "array",
              [k \in 1..Len(intercepted) |-> SerializeResponse(intercepted[k][2])])
  ELSE LET forwarded_res == [k \in 1..Len(body) |-> DeserializeResponse(body[k])]
           forwarded == Zip(idxs, forwarded_res)
           merged == MergeBy(forwarded, intercepted)
           res_vec == [k \in 1..Len(merged) |-> merged[k][2]]
       IN  Http(200, "array",
                [k \in 1..Len(res_vec) |-> SerializeResponse(res_vec[k])])

\* the rest of send_batch and of the batch arm: decode, zip, merge, emit
BatchResult(mode, body) ==
  IF mode = "fail"
    THEN IntoResponse(RpcResponseFrom(RpcErrorFromError("transport")))
  ELSE IF mode = "garbage"
    THEN IntoResponse(RpcResponseFrom(RpcErrorFromSerde("decode")))
  ELSE LET forwarded_res == [k \in 1..Len(body) |-> DeserializeResponse(body[k])]
           forwarded == Zip(idxs, forwarded_res)
           merged == MergeBy(forwarded, intercepted)
           res_vec == [k \in 1..Len(merged) |-> merged[k][2]]
       IN  Http(200, "array",
                [k \in 1..Len(res_vec) |-> SerializeResponse(res_vec[k])])

\* Batch: the upstream answers the batch, or the call fails
BatchReply(mode) ==
  /\ spc = "b_wait"
  /\ mode = "short" => Len(newBatch) > 0
  /\ LET body == IF mode \in {"answer", "short"}
                   THEN UpstreamBatchBody(mode, upstreamLog[1].body)
                   ELSE <<>>
     IN  /\ upReply' = [mode |-> mode, status |-> 200, body |-> body]
         /\ result' = BatchResult(mode, body)
  /\ spc' = "done"
  /\ UNCHANGED <<reqKind, reqs, path, outcomes, interceptedCh, forwardedCh,
                 idxs, newBatch, intercepted, upstreamLog, cachedAtStart>>
  /\ UNCHANGED <<authVars, callVars, wire>>

InitSendVars ==
  /\ spc = "idle"
  /\ reqKind = "single"
  /\ reqs = <<>>
  /\ path = "/"
  /\ outcomes = <<>>
  /\ interceptedCh = <<>>
  /\ forwardedCh = <<>>
  /\ idxs = <<>>
  /\ newBatch = <<>>
  /\ intercepted = <<>>
  /\ upstreamLog = <<>>
  /\ upReply = NoReply
  /\ result = NoHttp("pending")
  /\ cachedAtStart = NoSnapshot
  /\ wire = [method |-> "", params |-> <<>>]

\* self.authorization.try_load().await inside send
SendTryLoad ==
  /\ spc \in {"s_auth", "b_auth"}
  /\ TryLoadStep(SendTask)
  /\ UNCHANGED <<sendVars, callVars>>

\* The send task looks at the file only inside try_load: a change of the
\* file at an earlier moment is one made just before try_load starts.
SendFileStep ==
  /\ spc \in {"s_auth", "b_auth"}
  /\ FileStep
  /\ UNCHANGED <<sendVars, callVars>>

\* ------------------------------------------------------ RpcClient::call
\* the task that runs call, and the base URI of the upstream
CallTask == 1
BaseUri == "/"

CallPending == [kind |-> "pending", res |-> NoResponse]
CallOk(r) == [kind |-> "ok", res |-> r]
CallFailure == [kind |-> "failure", res |-> NoResponse]

\* an error answer of the upstream (bitcoind: RPC_INVALID_PARAMETER)
UpstreamError(w) ==
  [id |-> IF "id" \in DOMAIN w THEN SomeId(w.id.v) ELSE NoId,
   error |-> SomeError([code |-> -8, message |-> "up", status |-> NoStatus]),
   result |-> NoResult]

\* the decoded response is returned as it was decoded
AnnotateStatusNever(r, status) == r

\* if let Some(ref mut error) = rpc_response.error { error.status = Some(status) }
AnnotateStatus(r, status) ==
  IF r.error.some THEN [r EXCEPT !.error.e.status = status] ELSE r

CallBegin(r) ==
  /\ auth \in {"Const", "CookieFile"}
  /\ cpc = "idle"
  /\ pc[CallTask] = "idle"
  /\ cpc' = "c_auth"
  /\ callReq' = r
  /\ callLog' = <<>>
  /\ callReply' = NoReply
  /\ callRet' = CallPending
  /\ UNCHANGED <<authVars, sendVars>>

\* self.authorization.try_load().await?
CallTryLoad ==
  /\ cpc = "c_auth"
  /\ TryLoadStep(CallTask)
  /\ UNCHANGED <<sendVars, callVars>>

\* the cookie file changes while call resolves the credential
CallFileStep ==
  /\ cpc = "c_auth"
  /\ FileStep
  /\ UNCHANGED <<sendVars, callVars>>

\* try_load has returned: on Ok the request is built and sent to self.uri
CallPost ==
  /\ cpc = "c_auth"
  /\ pc[CallTask] = "done"
  /\ IF ret[CallTask].ok
       THEN /\ callLog' = Append(callLog,
                 Post(BaseUri, ret[CallTask].header, SerializeRequest(callReq)))
            /\ cpc' = "c_wait"
            /\ UNCHANGED callRet
       ELSE /\ callRet' = CallFailure
            /\ cpc' = "done"
            /\ UNCHANGED callLog
  /\ UNCHANGED <<callReq, callReply>>
  /\ UNCHANGED <<authVars, sendVars>>

CallModes == {"result", "error", "garbage", "fail"}

\* the upstream answers with a status and a body, or the transport fails;
\* the body is decoded and an error in it is annotated with the status
CallReply(mode, status) ==
  /\ cpc = "c_wait"
  /\ LET w == callLog[1].body
         body == IF mode = "result" THEN SerializeResponse(UpstreamAnswer(w))
                 ELSE IF mode = "error" THEN SerializeResponse(UpstreamError(w))
                 ELSE <<>>
     IN  /\ callReply' = [mode |-> mode,
                          status |-> IF mode = "fail" THEN 0 ELSE status,
                          body |-> body]
         /\ callRet' = IF mode \in {"fail", "garbage"}
                         THEN CallFailure
                         ELSE CallOk(AnnotateStatus(DeserializeResponse(body),
                                                    status))
  /\ cpc' = "done"
  /\ UNCHANGED <<callReq, callLog>>
  /\ UNCHANGED <<authVars, sendVars>>

\* call has returned; the task is free for another call
CallReturn ==
  /\ cpc = "done"
  /\ cpc' = "idle"
  /\ TLFinish(CallTask)
  /\ UNCHANGED <<callReq, callLog, callReply, callRet>>
  /\ UNCHANGED sendVars

InitCallVars ==
  /\ cpc = "idle"
  /\ callReq = NoRequest
  /\ callLog = <<>>
  /\ callReply = NoReply
  /\ callRet = CallPending

RECURSIVE SeqsUpTo(_, _)
SeqsUpTo(S, n) ==
  IF n = 0 THEN {<<>>}
  ELSE LET shorter == SeqsUpTo(S, n - 1)
       IN  shorter \cup {Append(q, x) : q \in shorter, x \in S}

InitAuthVars ==
  /\ config \in Configs
  /\ startup = NotStarted
  /\ auth = "Unset"
  /\ cached = NoSnapshot
  /\ rwReaders = {}
  /\ rwWriter = {}
  /\ fileExists = TRUE
  /\ fileHist = << <<97>> >>
  /\ pc = [p \in Tasks |-> "idle"]
  /\ cache = [p \in Tasks |-> NoSnapshot]
  /\ modified = [p \in Tasks |-> 0]
  /\ header = [p \in Tasks |-> NoHeader]
  /\ ret = [p \in Tasks |-> Pending]
  /\ startVer = [p \in Tasks |-> 0]
  /\ didRead = [p \in Tasks |-> 0]
  /\ last = [p \in Tasks |-> NoLast]
  /\ clean = [p \in Tasks |-> TRUE]

Init == InitAuthVars /\ InitSendVars /\ InitCallVars

NextAuth ==
  \/ CreateState /\ UNCHANGED <<sendVars, callVars>>
  \/ \E p \in Callers : TryLoadStep(p) /\ UNCHANGED <<sendVars, callVars>>
  \/ \E p \in Callers : TLFinish(p) /\ UNCHANGED <<sendVars, callVars>>
  \/ FileStep /\ UNCHANGED <<sendVars, callVars>>

NextSend ==
  \/ CreateState /\ UNCHANGED <<sendVars, callVars>>
  \/ \E w \in WireRequests, p \in Paths : Receive(w, p)
  \/ \E rs \in SeqsUpTo(Requests, MaxBatch), p \in Paths : BatchBegin(rs, p)
  \/ SingleIntercept
  \/ SinglePost
  \/ \E mode \in {"answer", "fail"}, st \in UpstreamStatuses : SingleReply(mode, st)
  \/ InterceptComplete
  \/ \E sent \in BOOLEAN : BatchJoin(sent)
  \/ BatchPost
  \/ \E mode \in UpstreamModes : BatchReply(mode)
  \/ SendTryLoad
  \/ SendFileStep

NextCall ==
  \/ CreateState /\ UNCHANGED <<sendVars, callVars>>
  \/ \E r \in Requests : CallBegin(r)
  \/ CallTryLoad
  \/ CallFileStep
  \/ CallPost
  \/ \E mode \in CallModes, st \in UpstreamStatuses : CallReply(mode, st)
  \/ CallReturn

\* try_load calls of another task (RpcClient::call), one after the other,
\* racing with the one send makes
ConcurrentTryLoad ==
  /\ spc = "b_auth"
  /\ TryLoadStep(OtherTask) \/ TLFinish(OtherTask)
  /\ UNCHANGED <<sendVars, callVars>>

\* the cookie file is removed while send resolves the credential
LiveFileStep ==
  /\ spc = "b_auth"
  /\ FileRemove
  /\ UNCHANGED <<sendVars, callVars>>

\* the batches of the termination check: up to MaxBatch copies of one request
LiveRequests == { [id |-> NoId, method |-> "b", params |-> <<>>] }

NextLive ==
  \/ CreateState /\ UNCHANGED <<sendVars, callVars>>
  \/ \E rs \in SeqsUpTo(LiveRequests, MaxBatch) : BatchBegin(rs, "/")
  \/ InterceptComplete
  \/ \E sent \in BOOLEAN : BatchJoin(sent)
  \/ BatchPost
  \/ \E mode \in UpstreamModes : BatchReply(mode)
  \/ SendTryLoad
  \/ LiveFileStep
  \/ ConcurrentTryLoad

\* Every interception invocation and the upstream request terminate; the
\* executor keeps polling the send task and the other task; the RwLock
\* of tokio queues its waiters, so a waiter that can be served again and
\* again is served.
LiveFairness ==
  /\ WF_vars(InterceptComplete)
  /\ WF_vars(\E sent \in BOOLEAN : BatchJoin(sent))
  /\ WF_vars(BatchPost)
  /\ WF_vars(\E mode \in UpstreamModes : BatchReply(mode))
  /\ SF_vars(SendTryLoad)
  /\ WF_vars(ConcurrentTryLoad)

SpecAuth == Init /\ [][NextAuth]_vars

SpecSend == Init /\ [][NextSend]_vars

SpecCall == Init /\ [][NextCall]_vars

SpecLive == Init /\ [][NextLive]_vars /\ LiveFairness

\* ------------------------------------------------------------ properties
Returned(p) == auth = "CookieFile" /\ pc[p] = "done" /\ ret[p].ok

BatchDone == reqKind = "batch" /\ spc = "done"
SingleDone == reqKind = "single" /\ spc = "done"

\* the response the batch owes to the request at position i
ExpectedElement(i) ==
  IF outcomes[i].kind = "none"
    THEN SerializeResponse(UpstreamAnswer(SerializeRequest(reqs[i])))
  ELSE IF outcomes[i].kind = "ok"
    THEN SerializeResponse(outcomes[i].res)
  ELSE SerializeResponse([id |-> reqs[i].id, error |-> SomeError(outcomes[i].e),
                          result |-> NoResult])

UpstreamCallFailed ==
  \/ pc[SendTask] = "done" /\ ~ret[SendTask].ok
  \/ upReply.mode \in {"fail", "garbage"}

\* C1: when every element of a batch is answered locally with a response
\* or declined, and the upstream answers the forwarded sub-batch one
\* response per request in order, the emitted array has the length of the
\* batch and its element i is the response for request i, for every
\* intercepted subset and every completion order.
BatchOutputInRequestOrder ==
  (/\ BatchDone
   /\ \A i \in 1..Len(reqs) : outcomes[i].kind \in {"none", "ok"}
   /\ upReply.mode = "answer") =>
    /\ result.kind = "http"
    /\ result.shape = "array"
    /\ Len(result.body) = Len(reqs)
    /\ \A i \in 1..Len(reqs) : result.body[i] = ExpectedElement(i)

\* C2: an RpcError returned by the interception function for an element of
\* a batch does not abort the batch: unless the upstream call fails, the
\* result is an array in which that element is the error response and
\* every other element keeps its own response.
BatchInterceptErrorKeepsBatch ==
  (/\ BatchDone
   /\ \E i \in 1..Len(reqs) : outcomes[i].kind = "err"
   /\ ~UpstreamCallFailed
   /\ upReply.mode # "short") =>
    /\ result.kind = "http"
    /\ result.shape = "array"
    /\ Len(result.body) = Len(reqs)
    /\ \A i \in 1..Len(reqs) : result.body[i] = ExpectedElement(i)

\* C3: when credential resolution, the transport or the decoding of the
\* upstream body fails for a batch, send yields one error document (an
\* RpcResponse with an error, no id and no result) and never an array.
BatchUpstreamFailureYieldsOneErrorDocument ==
  (BatchDone /\ UpstreamCallFailed) =>
    /\ result.kind = "http"
    /\ result.shape = "object"
    /\ result.status = 500
    /\ result.body.id = JNull
    /\ result.body.result = JNull
    /\ ~result.body.error.null
    /\ result.body.error.code =
         (IF upReply.mode = "garbage" THEN PARSE_ERROR_CODE ELSE MISC_ERROR_CODE)

\* The transport failed after two elements had been answered locally: their
\* responses are not in the result.
WitnessUpstreamFailureDropsLocalResults ==
  /\ BatchDone
  /\ upReply.mode = "fail"
  /\ Len(intercepted) = 2
  /\ result.shape = "object"

\* C8 as stated: in the single case an opinion of the interception function
\* is emitted with the id of the original request and the returned result
\* or error.
SingleOpinionCarriesRequestId ==
  (SingleDone /\ outcomes[1].kind \in {"ok", "err"}) =>
    /\ result.kind = "http"
    /\ result.shape = "object"
    /\ result.body.id = (IF reqs[1].id.some THEN JValue(reqs[1].id.v) ELSE JNull)
    /\ outcomes[1].kind = "ok" =>
         /\ result.body.result = JValue(outcomes[1].res.result.v)
         /\ result.body.error = JNull
    /\ outcomes[1].kind = "err" =>
         /\ result.body.result = JNull
         /\ ~result.body.error.null
         /\ result.body.error.code = outcomes[1].e.code
         /\ result.body.error.message = outcomes[1].e.message

\* C8 amended: in the single case a returned RpcError is emitted as a
\* response with the id of the original request, that error and no result;
\* a returned success response is emitted as the interception function
\* built it, with the id that function put into it.
SingleOpinionEmitted ==
  (SingleDone /\ outcomes[1].kind \in {"ok", "err"}) =>
    /\ result.kind = "http"
    /\ result.shape = "object"
    /\ outcomes[1].kind = "ok" =>
         /\ result.body.id = (IF outcomes[1].res.id.some
                                THEN JValue(outcomes[1].res.id.v) ELSE JNull)
         /\ result.body.result = JValue(outcomes[1].res.result.v)
         /\ result.body.error = JNull
    /\ outcomes[1].kind = "err" =>
         /\ result.body.id = (IF reqs[1].id.some
                                THEN JValue(reqs[1].id.v) ELSE JNull)
         /\ result.body.result = JNull
         /\ ~result.body.error.null
         /\ result.body.error.code = outcomes[1].e.code
         /\ result.body.error.message = outcomes[1].e.message

\* A request with an id was rejected locally; the error response carries
\* that id.
WitnessSingleRejectedWithId ==
  /\ SingleDone
  /\ outcomes[1].kind = "err"
  /\ reqs[1].id.some
  /\ result.body.id = JValue(reqs[1].id.v)

\* C9: in the single case an opinion of the interception function (success
\* or error) ends the call without an upstream request and without
\* try_load: no POST, no upstream answer, the credential cache as it was.
SingleOpinionLeavesUpstreamAlone ==
  (reqKind = "single" /\ spc # "idle" /\ outcomes[1].kind \in {"ok", "err"}) =>
    /\ spc = "done"
    /\ upstreamLog = <<>>
    /\ upReply = NoReply
    /\ pc[SendTask] = "idle"
    /\ cached = cachedAtStart

\* A single request was rejected locally by the interception function.
WitnessSingleRejectedLocally ==
  /\ SingleDone
  /\ outcomes[1].kind = "err"
  /\ result.status = 403
  /\ upstreamLog = <<>>

\* C10: in the single case without an opinion at most one POST is made; it
\* carries the request as it is (the id key present exactly when the
\* request has an id), the given path and the header try_load returned in
\* this call; the response send returns is the upstream's, status and body
\* unchanged; send fails only if try_load or the transport failed.
SingleForwardedVerbatim ==
  (reqKind = "single" /\ spc \in {"s_wait", "done"} /\ outcomes[1].kind = "none") =>
    /\ Len(upstreamLog) <= 1
    /\ (spc = "s_wait" \/ result.kind = "http" \/ upReply.mode # "none") =>
         /\ Len(upstreamLog) = 1
         /\ pc[SendTask] = "done" /\ ret[SendTask].ok
         /\ upstreamLog[1].method = "POST"
         /\ upstreamLog[1].path = path
         /\ upstreamLog[1].header = ret[SendTask].header
         /\ upstreamLog[1].header \in
              {ConstHeader} \cup
              {BasicHeader(LoadFromFile(fileHist[v])) : v \in 1..Len(fileHist)}
         /\ upstreamLog[1].body.method = reqs[1].method
         /\ upstreamLog[1].body.params = reqs[1].params
         /\ ("id" \in DOMAIN upstreamLog[1].body) <=> reqs[1].id.some
         /\ reqs[1].id.some => upstreamLog[1].body.id = JValue(reqs[1].id.v)
    /\ spc = "done" =>
         /\ result.kind \in {"http", "failure"}
         /\ result.kind = "http" =>
              /\ upReply.mode = "answer"
              /\ result.status = upReply.status
              /\ result.body = upReply.body
         /\ result.kind = "failure" =>
              \/ ~ret[SendTask].ok /\ upstreamLog = <<>>
              \/ upReply.mode = "fail"

\* A request without an id was forwarded with a header read from the cookie
\* file and the upstream's 404 came back.
WitnessSingleForwarded404 ==
  /\ SingleDone
  /\ outcomes[1].kind = "none"
  /\ ~reqs[1].id.some
  /\ auth = "CookieFile"
  /\ result.kind = "http"
  /\ result.status = 404
  /\ Len(upstreamLog) = 1

\* C4: a try_load call on a CookieFile source that starts after a rotation
\* of the file has completed returns a header derived from content the file
\* had at or after the start of that call, never from an older version,
\* whatever other try_load calls do concurrently (late installs included).
NoStaleAfterRotation ==
  \A p \in Tasks :
    Returned(p) =>
      \E v \in startVer[p]..Len(fileHist) :
        ret[p].header = BasicHeader(LoadFromFile(fileHist[v]))

\* A call that started after the rotation re-read the file and returned a
\* header different from the older snapshot that a concurrent caller
\* installed after the rotation.
WitnessFreshDespiteLateInstall ==
  \E p \in Callers :
    /\ Returned(p)
    /\ startVer[p] >= 2
    /\ didRead[p] = 1
    /\ cached.some
    /\ cached.ts < startVer[p]
    /\ cached.header # ret[p].header

\* C5: try_load returns the cached header without reading the contents
\* exactly when the snapshot it loaded exists and carries the timestamp it
\* observed; in every other case it reads the contents once, returns the
\* header built from them and installs (observed timestamp, header); a
\* cache hit leaves the snapshot alone.
CachedExactlyWhenTimestampMatches ==
  /\ [](\A p \in Tasks :
          Returned(p) =>
            IF cache[p].some /\ cache[p].ts = modified[p]
              THEN didRead[p] = 0 /\ ret[p].header = cache[p].header
              ELSE /\ didRead[p] = 1
                   /\ ret[p].header = header[p]
                   /\ \E v \in modified[p]..Len(fileHist) :
                        header[p] = BasicHeader(LoadFromFile(fileHist[v])))
  /\ [][\A p \in Tasks :
          /\ (pc[p] = "wlock" /\ pc'[p] = "done") =>
               cached' = [some |-> TRUE, ts |-> modified[p],
                          header |-> header[p]]
          /\ (pc[p] = "stat" /\ pc'[p] = "done") => cached' = cached]_vars

\* A call after a rotation hit a snapshot that was refreshed for the new
\* version of the file.
WitnessCacheHitAfterRefresh ==
  \E p \in Callers :
    /\ Returned(p)
    /\ cache[p].some
    /\ cache[p].ts = modified[p]
    /\ modified[p] >= 2
    /\ didRead[p] = 0

\* C6 as stated: between successive successful calls of a task the returned
\* value changes if and only if the file's modification timestamp has
\* changed since the first call observed it, and an unchanged timestamp
\* means no content read.
ValueChangesIffTimestampChanges ==
  \A p \in Tasks :
    (Returned(p) /\ last[p].some) =>
      /\ (ret[p].header # last[p].header) <=> (fileMtime # last[p].modified)
      /\ (fileMtime = last[p].modified) => didRead[p] = 0

\* C6 amended: between successive successful calls of a task the returned
\* value changes only if the file's modification timestamp has changed
\* since the first call observed it; and when the timestamp is unchanged
\* and no other task replaced the snapshot in between, the repeated call
\* does not read the contents.
ValueChangesOnlyIfTimestampChanges ==
  \A p \in Tasks :
    (Returned(p) /\ last[p].some) =>
      /\ (ret[p].header # last[p].header) => (fileMtime # last[p].modified)
      /\ (fileMtime = last[p].modified /\ clean[p] /\ last[p].clean) =>
           didRead[p] = 0

\* A repeated call after a rotation saw the same timestamp as the call
\* before it and answered from the cache.
WitnessRepeatedCallNoReread ==
  \E p \in Callers :
    /\ Returned(p)
    /\ last[p].some
    /\ fileMtime = last[p].modified
    /\ fileMtime >= 2
    /\ clean[p] /\ last[p].clean
    /\ didRead[p] = 0
    /\ ret[p].header = last[p].header

\* C7: the snapshot timestamp behind every returned header (the loaded
\* snapshot's on a hit, the observed one on a refresh) is a modification
\* timestamp the file had at or after the start of the call, under every
\* interleaving of racing refreshes and file modifications.
ReturnedSnapshotTimestampIsCurrent ==
  \A p \in Tasks :
    Returned(p) =>
      LET ts == IF didRead[p] = 0 THEN cache[p].ts ELSE modified[p]
      IN  ts \in startVer[p]..Len(fileHist)

\* Two callers raced: both found the cache stale for the same version and
\* both re-read the file.
WitnessRedundantRefresh ==
  \E p, q \in Callers :
    /\ p # q
    /\ Returned(p) /\ Returned(q)
    /\ didRead[p] = 1 /\ didRead[q] = 1
    /\ modified[p] = modified[q]
    /\ modified[p] >= 2

\* ------------------------------------------------------------------ C11
ConstConfig == [bitcoind_user |-> Some(<<117>>),
                bitcoind_password |-> Some(<<112>>), cookie_file |-> None]
CookieConfig == [bitcoind_user |-> None, bitcoind_password |-> None,
                 cookie_file |-> Some(<<99>>)]

\* C11: from_config succeeds exactly for the (user, password) pair without
\* a cookie file, yielding Const with the Basic header of "user:password",
\* and for the cookie file without user and password, yielding CookieFile
\* with an empty cache; each of the six other combinations fails with a
\* configuration error, and then no client is created.
FromConfigAcceptsExactlyOneMode ==
  startup.done =>
    /\ startup.ok <=> config \in {ConstConfig, CookieConfig}
    /\ config = ConstConfig =>
         /\ auth = "Const"
         /\ startup.header = ConstHeader
    /\ config = CookieConfig => auth = "CookieFile"
    /\ ~startup.ok =>
         /\ auth = "Failed"
         /\ startup.msg # ""
         /\ spc = "idle"
         /\ \A p \in Tasks : pc[p] = "idle"
         /\ cached = NoSnapshot

\* a password without a user, and without a cookie file, has been refused
WitnessPasswordAloneRefused ==
  /\ startup.done
  /\ ~startup.ok
  /\ ~config.bitcoind_user.some
  /\ config.bitcoind_password.some
  /\ ~config.cookie_file.some

\* ------------------------------------------------------------------ C12
INTERNAL_SERVER_ERROR == 500
OK == 200

\* the status into_response owes to response r
ExpectedStatus(r) ==
  IF r.error.some /\ r.error.e.status # NoStatus THEN r.error.e.status
  ELSE IF r.error.some THEN INTERNAL_SERVER_ERROR
  ELSE OK

\* the body is the object {id, error, result} whose error, when not null,
\* has the code and the message of the error of r and nothing else
BodyOf(b, r) ==
  /\ DOMAIN b = {"id", "error", "result"}
  /\ b.error.null <=> ~r.error.some
  /\ ~b.error.null =>
       /\ DOMAIN b.error = {"null", "code", "message"}
       /\ b.error.code = r.error.e.code
       /\ b.error.message = r.error.e.message

\* C12: every response send converts with into_response (the local answer
\* of a single request, the error document of an aborted batch) is emitted
\* with the status of its error if one is set, INTERNAL_SERVER_ERROR if it
\* has an error without a status, OK if it has no error; the body never
\* carries the status annotation.
IntoResponsePicksStatus ==
  /\ (SingleDone /\ HasOpinion(outcomes[1])) =>
       LET r == UnwrapOrElse(outcomes[1], reqs[1])
       IN  /\ result.kind = "http"
           /\ result.status = ExpectedStatus(r)
           /\ BodyOf(result.body, r)
  /\ (BatchDone /\ TryCollectFails(interceptedCh)) =>
       LET r == RpcResponseFrom(TryCollectError(interceptedCh))
       IN  /\ result.kind = "http"
           /\ result.status = ExpectedStatus(r)
           /\ BodyOf(result.body, r)

\* a local error carrying status 403 has been emitted as 403, its body
\* holding only code and message
WitnessLocalErrorStatusEmitted ==
  /\ SingleDone
  /\ outcomes[1].kind = "err"
  /\ outcomes[1].e.status = 403
  /\ result.status = 403
  /\ DOMAIN result.body.error = {"null", "code", "message"}

\* ------------------------------------------------------------------ C13
\* C13: call issues one POST, to the base URI with the header try_load
\* returned; when the body decodes to a response with an error, the error
\* is annotated with the HTTP status the upstream returned, so that
\* into_response emits that status; a response without an error carries
\* no annotation; a transport or decode failure, or a failed try_load, is
\* returned as a failure, with one POST or none and never a second one.
CallAnnotatesUpstreamStatus ==
  /\ Len(callLog) <= 1
  /\ cpc = "c_wait" =>
       callLog = << Post(BaseUri, ret[CallTask].header,
                         SerializeRequest(callReq)) >>
  /\ cpc = "done" =>
       /\ callReply.mode = "none" =>
            /\ callRet = CallFailure
            /\ callLog = <<>>
            /\ ~ret[CallTask].ok
       /\ callReply.mode \in {"fail", "garbage"} =>
            /\ callRet = CallFailure
            /\ Len(callLog) = 1
       /\ callReply.mode = "error" =>
            /\ callRet.kind = "ok"
            /\ callRet.res.error.some
            /\ callRet.res.error.e.status = callReply.status
            /\ callRet.res.error.e.code = -8
            /\ callRet.res.id = callReq.id
            /\ IntoResponse(callRet.res).status = callReply.status
            /\ Len(callLog) = 1
       /\ callReply.mode = "result" =>
            /\ callRet.kind = "ok"
            /\ callRet.res = UpstreamAnswer(SerializeRequest(callReq))
            /\ ~callRet.res.error.some
            /\ Len(callLog) = 1

\* the upstream answered 404 with an error body and call returned the
\* error annotated with 404
WitnessUpstream404Annotated ==
  /\ cpc = "done"
  /\ callReply.mode = "error"
  /\ callReply.status = 404
  /\ callRet.res.error.some
  /\ callRet.res.error.e.status = 404

\* ------------------------------------------------------------------ C14
\* C14: a valid single request object, decoded and encoded again for the
\* upstream, is an equivalent object: same method, same params, no id key
\* when the id was absent, and the id it had, null included, when it had
\* one.
RequestRoundTripKeepsId ==
  (reqKind = "single" /\ Len(upstreamLog) = 1) =>
    LET b == upstreamLog[1].body
    IN  /\ b.method = wire.method
        /\ b.params = wire.params
        /\ ("id" \in DOMAIN b) <=> ("id" \in DOMAIN wire)
        /\ ("id" \in DOMAIN wire) => b.id = wire.id

\* ------------------------------------------------------------------ C15
\* C15: the upstream batch lists the declined elements by ascending
\* original index, whatever order the interception invocations completed
\* in, and the k-th response of the upstream is attributed to the original
\* index of the k-th forwarded element.
ForwardedByAscendingIndex ==
  /\ (reqKind = "batch" /\ spc \in {"b_wait", "done"}
        /\ ~TryCollectFails(interceptedCh) /\ Len(upstreamLog) = 1) =>
       /\ \A k \in 1..(Len(idxs) - 1) : idxs[k] < idxs[k + 1]
       /\ upstreamLog[1].body =
            [k \in 1..Len(idxs) |-> SerializeRequest(reqs[idxs[k] + 1])]
  /\ (BatchDone /\ upReply.mode = "answer" /\ intercepted = <<>>) =>
       /\ Len(result.body) = Len(idxs)
       /\ \A k \in 1..Len(idxs) :
            result.body[k] = SerializeResponse(
              UpstreamAnswer(SerializeRequest(reqs[idxs[k] + 1])))

\* ------------------------------------------------------------------ C16
\* C16: the cache lock is never held across I/O.  A task holds the read
\* section only between the grant of cached.read() and the clone, and the
\* write section only between the grant of cached.write() and the
\* assignment: never while it reads the timestamp or the contents of the
\* file, and never while it waits.  The write section excludes readers
\* for the install step alone.
LockNeverHeldAcrossIO ==
  /\ \A p \in Tasks :
       /\ p \in rwReaders <=> pc[p] = "rlock"
       /\ p \in rwWriter <=> pc[p] = "wlock"
       /\ pc[p] \in {"stat", "read", "wwait", "done", "idle"} =>
            p \notin rwReaders \cup rwWriter
  /\ Cardinality(rwWriter) <= 1
  /\ rwWriter # {} => rwReaders = {}

\* one caller is reading the contents of the file to refresh the cache
\* while the other holds the read section of the lock
WitnessReadDuringRefresh ==
  \E p, q \in Callers :
    /\ p # q
    /\ pc[p] = "read"
    /\ q \in rwReaders
    /\ rwWriter = {}

\* ------------------------------------------------------------------ C17
\* positions of the channel items that carry the zero-based index i
ForwardedAt(i) == {k \in 1..Len(forwardedCh) : forwardedCh[k][1] = i}
InterceptedAt(i) == {k \in 1..Len(interceptedCh) : interceptedCh[k].idx = i}

\* C17: once the fan-out of a batch is over (and so whenever the upstream
\* request is built or posted) the interception function has completed
\* for every element and has put each index exactly once into exactly one
\* channel: the forwarded one if it declined, the intercepted one if not;
\* the forwarded sub-batch is exactly the declined elements, each once.
BatchPartitionComplete ==
  (reqKind = "batch" /\ spc \in {"b_auth", "b_wait", "done"}) =>
    /\ \A i \in 1..Len(reqs) :
         /\ outcomes[i].kind # "pending"
         /\ Cardinality(ForwardedAt(i - 1)) =
              (IF outcomes[i].kind = "none" THEN 1 ELSE 0)
         /\ Cardinality(InterceptedAt(i - 1)) =
              (IF outcomes[i].kind = "none" THEN 0 ELSE 1)
    /\ Len(forwardedCh) + Len(interceptedCh) = Len(reqs)
    /\ Len(idxs) = Len(forwardedCh)
    /\ Len(newBatch) = Len(forwardedCh)
    /\ \A k \in 1..Len(forwardedCh) :
         /\ idxs[k] = forwardedCh[k][1]
         /\ newBatch[k] = reqs[idxs[k] + 1]
         /\ outcomes[idxs[k] + 1].kind = "none"
    /\ \A k \in 1..Len(upstreamLog) :
         upstreamLog[k].body =
           [j \in 1..Len(idxs) |-> SerializeRequest(reqs[idxs[j] + 1])]

\* a batch of two whose first element was answered locally and whose
\* second was declined has been posted with the second element alone
WitnessOneOfTwoForwarded ==
  /\ reqKind = "batch"
  /\ spc = "b_wait"
  /\ Len(reqs) = 2
  /\ outcomes[1].kind = "ok"
  /\ outcomes[2].kind = "none"
  /\ idxs = <<1>>
  /\ Len(upstreamLog[1].body) = 1

\* ------------------------------------------------------------------ C18
\* C18: a batch send that has started returns, whatever the size of the
\* batch, the empty one included: the fan-out ends, both channels are
\* closed after it so that draining them completes, and the try_load of
\* the send task gets through the cache lock although another task keeps
\* calling try_load.
BatchSendTerminates ==
  (reqKind = "batch" /\ spc # "idle") ~> (spc = "done")

\* the empty batch has gone through credential resolution and the
\* upstream and has returned
WitnessEmptyBatchReturned ==
  /\ BatchDone
  /\ reqs = <<>>
  /\ SendersAfterFanOut = {}
  /\ Len(upstreamLog) = 1
  /\ upReply.mode = "answer"

\* ------------------------------------------------------------------ C19
AllAnsweredLocally ==
  /\ reqKind = "batch"
  /\ Len(reqs) > 0
  /\ \A i \in 1..Len(reqs) : outcomes[i].kind = "ok"

\* C19: a batch whose elements were all answered locally with success
\* responses still resolves the credential and, if that succeeds, posts
\* one empty batch to the upstream; when the credential resolution or the
\* upstream call fails the result is a single error document and none of
\* the local responses, and only an answer of the upstream lets the local
\* responses out.
AllLocalBatchStillCallsUpstream ==
  /\ (AllAnsweredLocally /\ spc = "b_wait") =>
       /\ ret[SendTask].ok
       /\ Len(upstreamLog) = 1
       /\ upstreamLog[1].body = <<>>
  /\ (AllAnsweredLocally /\ spc = "done") =>
       /\ pc[SendTask] = "done"
       /\ IF ret[SendTask].ok
            THEN /\ Len(upstreamLog) = 1
                 /\ upstreamLog[1].method = "POST"
                 /\ upstreamLog[1].body = <<>>
                 /\ upReply.mode # "none"
            ELSE /\ upstreamLog = <<>>
                 /\ upReply.mode = "none"
       /\ UpstreamCallFailed =>
            /\ result.shape = "object"
            /\ result.status = INTERNAL_SERVER_ERROR
            /\ ~result.body.error.null
            /\ result.body.result.null
            /\ result.body.id.null
       /\ ~UpstreamCallFailed =>
            /\ result.shape = "array"
            /\ Len(result.body) = Len(reqs)

\* two elements answered locally, the transport to the upstream failed,
\* and send returned one error document
WitnessAllLocalLostToUpstreamFailure ==
  /\ AllAnsweredLocally
  /\ Len(reqs) = 2
  /\ spc = "done"
  /\ upReply.mode = "fail"
  /\ result.shape = "object"

\* ------------------------------------------------------------------ C20
\* the call of p has ended with an error
Failed(p) == auth = "CookieFile" /\ pc[p] = "done" /\ ~ret[p].ok

\* C20: a try_load that finds the cookie file missing, at the read of the
\* timestamp or at the read of the contents, ends at that step with an
\* error, also when it holds a snapshot it could have fallen back to, and
\* that step leaves the cached snapshot alone; a call that ended with an
\* error never held the write section, and unless another task installed
\* a snapshot meanwhile the cache is the one the call cloned at its start.
FailedLoadLeavesCache ==
  /\ [](\A p \in Callers :
          Failed(p) =>
            /\ ret[p] = Err("io")
            /\ header[p] = NoHeader
            /\ p \notin rwWriter
            /\ clean[p] => cached = cache[p])
  /\ [][\A p \in Callers :
          (pc[p] \in {"stat", "read"} /\ pc'[p] # pc[p] /\ ~fileExists) =>
            /\ pc'[p] = "done"
            /\ ret'[p] = Err("io")
            /\ cached' = cached]_vars

\* a call failed although it had cloned a snapshot, and the snapshot is
\* still the cached one
WitnessFailedDespiteSnapshot ==
  \E p \in Callers :
    /\ Failed(p)
    /\ cache[p].some
    /\ clean[p]
    /\ cached = cache[p]

====
